---- MODULE Spec2Model ----
(***************************************************************************)
(* A model of download_stereo4d.py: the Run Driver                         *)
(* (batch_download_from_file), the Batch Scheduler (download_batch), the   *)
(* Item Fetcher (download_video), the Identifier Normalizer and the ledger *)
(* and failure files.                                                      *)
(*                                                                         *)
(* Strings are sequences of tokens: a token is a URL marker, a delimiter,  *)
(* a blank or an opaque piece of text.  A file is a sequence of lines.     *)
(***************************************************************************)
EXTENDS Integers, Sequences, FiniteSets, TLC

\* ------------------------------------------------------------------ bounds
MaxUrls == 3
MaxWorkers == 2
MaxBatch == 2
MaxChunk == 3
MaxRetry == 4

\* ------------------------------------------------------- program constants
DefaultRetryCount == 3
SleepMin == 5
SleepMax == 60

LongMarker == "youtube.com/watch?v="
ShortMarker == "youtu.be/"
ErrAuth == "Authentication required. Use --cookies-file or --cookies-from-browser"
ErrUnavailable == "Video unavailable (removed or private)"
ErrFailedAfter == "Failed after {retry_count} attempts"
ErrException == "str(e)"
ErrUnknown == "Unknown error"

\* --------------------------------------------------------- string helpers
Range(s) == {s[i] : i \in 1..Len(s)}

\* The index of the first occurrence of tok in s (0: none).
IndexOf(s, tok) ==
    IF tok \in Range(s)
    THEN CHOOSE i \in 1..Len(s) : s[i] = tok /\ \A j \in 1..(i - 1) : s[j] # tok
    ELSE 0

\* s.split(tok)[0]
SplitFirst(s, tok) ==
    IF tok \in Range(s) THEN SubSeq(s, 1, IndexOf(s, tok) - 1) ELSE s

\* s.split(tok)[1], for an s that contains tok
SplitSecond(s, tok) ==
    SplitFirst(SubSeq(s, IndexOf(s, tok) + 1, Len(s)), tok)

RECURSIVE LStrip(_)
LStrip(s) == IF s # <<>> /\ Head(s) = " " THEN LStrip(Tail(s)) ELSE s

RECURSIVE RStrip(_)
RStrip(s) ==
    IF s # <<>> /\ s[Len(s)] = " " THEN RStrip(SubSeq(s, 1, Len(s) - 1)) ELSE s

\* line.strip()
Strip(s) == RStrip(LStrip(s))

RECURSIVE MapStrip(_)
MapStrip(lines) ==
    IF lines = <<>> THEN <<>> ELSE <<Strip(Head(lines))>> \o MapStrip(Tail(lines))

NonBlank(line) == line # <<>>

read_urls(file) == SelectSeq(MapStrip(file), NonBlank)

read_downloaded_urls_stale(file) == {}

\* A ledger file that does not exist reads as the empty file.
read_downloaded_urls(file) == Range(SelectSeq(MapStrip(file), NonBlank))

extract_video_id_from_url(url) ==
    IF LongMarker \in Range(url)
    THEN SplitFirst(SplitSecond(url, LongMarker), "&")
    ELSE IF ShortMarker \in Range(url)
         THEN SplitFirst(SplitSecond(url, ShortMarker), "?")
         ELSE url

KnownExts == <<"mp4", "mkv", "webm">>

VideoExistsMp4Only(files, video_id) == <<video_id, "mp4">> \in files

\* The existence check of download_video: any of the known extensions.
VideoExists(files, video_id) ==
    \E i \in 1..Len(KnownExts) : <<video_id, KnownExts[i]>> \in files


\* ------------------------------------------------------------------ state
VARIABLES
    \* configuration, fixed during a behaviour
    url_file,          \* the lines of the input file
    batch_size,        \* --batch_size
    max_workers,       \* --max_workers
    auth,              \* the authentication material supplied
    retry_count,       \* download_video's retry_count argument
    detail,            \* whether tool outputs and jitter are kept in the call logs
    \* the file system
    ledger,            \* the lines of downloaded_<base>_urls.txt
    failed_file,       \* the lines of failed_<base>_urls.txt
    disk,              \* the files of the output directory: <<video_id, ext>>
    \* batch_download_from_file
    run,               \* "first", or "second": the program started again
    dpc,               \* the driver's position
    d_urls,            \* its urls_to_download
    total_batches,
    batch_num,
    sleep_time,
    \* download_batch
    bpc,               \* the scheduler's position
    b_urls,            \* its urls_to_download
    tasks,             \* one download_video call per entry of b_urls
    successful_urls,
    failed_urls,
    \* history
    fetched,           \* the calls of download_video of this run: [batch, url]
    handed,            \* the chunks handed to download_batch in this run
    b_start_len,       \* the ledger's length when the current chunk started
    run_start_len,     \* the ledger's length when the current run started
    had_error,         \* an outcome of this run was classified as a failure
    prev_run,          \* how the first run ended: "clean", "failures", "crashed"
    pauses,            \* the chunks of this run after which the driver slept
    classified,        \* the chunk of every outcome classified in this run
    written            \* the chunks of this run that wrote the failure file

config == <<url_file, batch_size, max_workers, auth, retry_count, detail>>
files == <<ledger, failed_file, disk>>
driver == <<run, dpc, d_urls, total_batches, batch_num, sleep_time>>
batch == <<bpc, b_urls, tasks, successful_urls, failed_urls>>
history == <<fetched, handed, b_start_len, run_start_len, had_error, prev_run, pauses,
             classified, written>>
vars == <<config, files, driver, batch, history>>

\* ------------------------------------------------------- the external tool
\* What one yt-dlp invocation can do: Popen or communicate raises, or the
\* process exits with a return code (rc0: it is 0) and text on stdout/stderr
\* (bot: it holds "Sign in to confirm you're not a bot"; unavail: it holds
\* "Video unavailable").
Outcomes ==
    [raise : {FALSE}, rc0 : BOOLEAN, bot : BOOLEAN, unavail : BOOLEAN]
    \cup {[raise |-> TRUE, rc0 |-> FALSE, bot |-> FALSE, unavail |-> FALSE]}

\* random.uniform(0, 1), in milliseconds (kept in the logs of detailed calls)
JitterMs == IF detail THEN {0, 999} ELSE {0}

AuthModes == {"none", "cookies_file", "cookies_from_browser"}

\* not (cookies_file or cookies_from_browser)
NoAuth == auth = "none"

TwoTimes(n) == 2 * n

\* 2 ** attempt
RECURSIVE Pow2(_)
Pow2(n) == IF n = 0 THEN 1 ELSE 2 * Pow2(n - 1)

\* -------------------------------------------------------- download_video
NoResult == [status |-> "pending", error |-> ""]
NoneResult == [status |-> "None", error |-> ""]
Ok(status) == [status |-> status, error |-> ""]
Err(msg) == [status |-> "error", error |-> msg]

NewTask(url, chunk) ==
    [url |-> url, batch |-> chunk, pc |-> "queued", attempt |-> 0,
     log |-> <<>>, result |-> NoResult, had_file |-> FALSE]

InvokeEv(kind, attempt, out) ==
    [k |-> kind, a |-> attempt, o |-> IF detail THEN {out} ELSE {},
     base |-> 0, jit |-> 0]

SleepEv(attempt, j) ==
    [k |-> "sleep", a |-> attempt, o |-> {},
     base |-> Pow2(attempt), jit |-> IF detail THEN j ELSE 0]

Returned(tk, res) == [tk EXCEPT !.pc = "done", !.result = res]

AttemptsRemainOffByOne(attempt) == attempt < retry_count

\* attempt < retry_count - 1
AttemptsRemain(attempt) == attempt < retry_count - 1

Backoff(tk, j) ==
    [tk EXCEPT !.log = Append(@, SleepEv(tk.attempt, j)),
               !.attempt = @ + 1, !.pc = "attempt"]

\* Lines 129-141: sleep and go on, or give up.
AfterFailure(tk, j) ==
    IF AttemptsRemain(tk.attempt)
    THEN Backoff(tk, j)
    ELSE Returned(tk, Err(ErrFailedAfter))

AfterExceptionNoRetry(tk, j) == Returned(tk, Err(ErrException))

\* Lines 145-152: the except branch.
AfterException(tk, j) ==
    IF AttemptsRemain(tk.attempt)
    THEN Backoff(tk, j)
    ELSE Returned(tk, Err(ErrException))

IsAuthRequiredIgnoringAuth(out) == out.bot

\* Lines 82-83
IsAuthRequired(out) == out.bot /\ NoAuth

IsUnavailableNever(out) == FALSE

\* Line 93
IsUnavailable(out) == out.unavail

UsesFallbackEveryRetry(attempt) == attempt >= 1

\* Line 103
UsesFallback(attempt) == attempt = 1

\* Lines 35-41, and the loop's entry: the call of download_video.
Called(tk) ==
    LET video_id == extract_video_id_from_url(tk.url)
        t1 == [tk EXCEPT !.had_file =
                  \E f \in disk : f[1] = video_id /\ f[2] \in {"mp4", "mkv", "webm"}]
    IN  IF VideoExists(disk, video_id)
        THEN Returned(t1, Ok("already_exists"))
        ELSE IF retry_count <= 0
             THEN Returned(t1, NoneResult)
             ELSE [t1 EXCEPT !.pc = "attempt", !.attempt = 0]

\* Lines 44-143: one pass of the loop up to the fallback or the next pass.
Attempted(tk, out, j) ==
    LET t1 == [tk EXCEPT !.log = Append(@, InvokeEv("primary", tk.attempt, out))]
    IN  IF out.raise THEN AfterException(t1, j)
        ELSE IF out.rc0 THEN Returned(t1, Ok("success"))
        ELSE IF IsAuthRequired(out) THEN Returned(t1, Err(ErrAuth))
        ELSE IF IsUnavailable(out) THEN Returned(t1, Err(ErrUnavailable))
        ELSE IF UsesFallback(tk.attempt) THEN [t1 EXCEPT !.pc = "fallback"]
        ELSE AfterFailure(t1, j)

\* Lines 104-141: the alternate-format invocation and what follows it.
FellBack(tk, out, j) ==
    LET t1 == [tk EXCEPT !.log = Append(@, InvokeEv("fallback", tk.attempt, out))]
    IN  IF out.raise THEN AfterException(t1, j)
        ELSE IF out.rc0 THEN Returned(t1, Ok("success"))
        ELSE AfterFailure(t1, j)

\* The tool writes <video_id>.webm when it exits with 0.
DiskAfter(url, out) ==
    IF ~out.raise /\ out.rc0
    THEN disk \cup {<<extract_video_id_from_url(url), "webm">>}
    ELSE disk

DvAttempt(t) ==
    /\ t \in DOMAIN tasks
    /\ tasks[t].pc = "attempt"
    /\ \E out \in Outcomes, j \in JitterMs :
          /\ tasks' = [tasks EXCEPT ![t] = Attempted(tasks[t], out, j)]
          /\ disk' = DiskAfter(tasks[t].url, out)
    /\ UNCHANGED <<config, ledger, failed_file, driver, bpc, b_urls,
                   successful_urls, failed_urls, history>>

DvFallback(t) ==
    /\ t \in DOMAIN tasks
    /\ tasks[t].pc = "fallback"
    /\ \E out \in Outcomes, j \in JitterMs :
          /\ tasks' = [tasks EXCEPT ![t] = FellBack(tasks[t], out, j)]
          /\ disk' = DiskAfter(tasks[t].url, out)
    /\ UNCHANGED <<config, ledger, failed_file, driver, bpc, b_urls,
                   successful_urls, failed_urls, history>>


\* -------------------------------------------------------- download_batch
BatchFilterNone(chunk, file) == chunk

\* Lines 160-164: the chunk without what the ledger file holds now.
BatchFilter(chunk, file) ==
    SelectSeq(chunk, LAMBDA url : url \notin read_downloaded_urls(file))

IsSuccessStatusStrict(status) == status = "success"

\* Lines 184 and 206
IsSuccessStatus(status) == status \in {"success", "already_exists"}

Running == {t \in DOMAIN tasks : tasks[t].pc \in {"attempt", "fallback"}}

PoolAlwaysIdle == TRUE

\* ThreadPoolExecutor(max_workers=max_workers): a queued call starts when one
\* of the max_workers threads is idle.
PoolHasIdleWorker == Cardinality(Running) < max_workers

\* Whose turn it is: line 179's loop calls in order, each after the one before
\* was classified; the executor's queue is first in, first out.
CanCall(t) ==
    /\ tasks[t].pc = "queued"
    /\ \A s \in 1..(t - 1) : tasks[s].pc # "queued"
    /\ IF bpc = "seq" THEN \A s \in 1..(t - 1) : tasks[s].pc = "consumed"
       ELSE IF bpc \in {"par", "unwind"} THEN PoolHasIdleWorker
       ELSE bpc = "direct"

\* download_video is entered: lines 180, 198.
StartFetch(t) ==
    /\ t \in DOMAIN tasks
    /\ CanCall(t)
    /\ tasks' = [tasks EXCEPT ![t] = Called(tasks[t])]
    /\ fetched' = Append(fetched, [batch |-> tasks[t].batch, url |-> tasks[t].url])
    /\ UNCHANGED <<config, files, driver, bpc, b_urls, successful_urls, failed_urls,
                   handed, b_start_len, run_start_len, had_error, prev_run, pauses,
                   classified, written>>

\* The future's result has been read: the call's frame is gone.
\* result.get("error", "Unknown error")
ErrorOf(res) == IF res.status = "error" THEN res.error ELSE ErrUnknown

Consumed(tk) == [tk EXCEPT !.pc = "consumed", !.attempt = 0, !.log = <<>>]

Appending == {t \in DOMAIN tasks : tasks[t].pc = "appending"}

CoordinatorAlwaysFree == TRUE

\* The loops of lines 179 and 202 run in the thread that called download_batch:
\* an outcome is taken up when the one before it has been dealt with.
CoordinatorFree == Appending = {}

UncaughtIgnored(mode) == [bpc |-> mode, dpc |-> dpc]

\* An exception nothing catches leaves download_batch and the driver's loop;
\* the with block of line 197 first waits for the submitted calls.
Uncaught(mode) ==
    [bpc |-> IF mode = "par" THEN "unwind" ELSE "idle",
     dpc |-> IF mode = "par" THEN dpc ELSE "crashed"]

AppendLineTruncating(file, url) == <<url>>

\* Lines 187-188 and 209-210: open(downloaded_file, 'a'), write(url + '\n')
AppendLine(file, url) == Append(file, url)

\* Lines 184-186, 189-194 and 203-208, 211-216: one outcome is classified.
\* result["status"] of a None result raises TypeError.
Classify(t) ==
    /\ t \in DOMAIN tasks
    /\ dpc = "in_batch"
    /\ bpc \in {"seq", "par"}
    /\ tasks[t].pc = "done"
    /\ CoordinatorFree
    /\ LET url == tasks[t].url
           res == tasks[t].result
           raises == res.status = "None"
           good == ~raises /\ IsSuccessStatus(res.status)
           after == IF raises THEN Uncaught(bpc) ELSE [bpc |-> bpc, dpc |-> dpc]
       IN  /\ tasks' = [tasks EXCEPT ![t] =
                           IF good THEN [Consumed(tasks[t]) EXCEPT !.pc = "appending"]
                           ELSE Consumed(tasks[t])]
           /\ successful_urls' =
                 IF good THEN Append(successful_urls, url) ELSE successful_urls
           /\ failed_urls' =
                 IF ~good /\ ~raises
                 THEN Append(failed_urls, [url |-> url, error |-> ErrorOf(res)])
                 ELSE failed_urls
           /\ had_error' = (had_error \/ (~good /\ ~raises))
           /\ classified' = Append(classified, tasks[t].batch)
           /\ bpc' = after.bpc
           /\ dpc' = after.dpc
    /\ UNCHANGED <<config, files, run, d_urls, total_batches, batch_num,
                   sleep_time, b_urls, fetched, handed, b_start_len, run_start_len,
                   prev_run, pauses, written>>

\* Lines 187-188 and 209-210: the reference is appended to the ledger file, or
\* open or write raises.
AppendLedger(t) ==
    /\ t \in DOMAIN tasks
    /\ dpc = "in_batch"
    /\ bpc \in {"seq", "par"}
    /\ tasks[t].pc = "appending"
    /\ tasks' = [tasks EXCEPT ![t].pc = "consumed"]
    /\ \E io \in {"ok", "IOError"} :
          LET after == IF io = "ok" THEN [bpc |-> bpc, dpc |-> dpc] ELSE Uncaught(bpc)
          IN  /\ ledger' = IF io = "ok" THEN AppendLine(ledger, tasks[t].url) ELSE ledger
              /\ bpc' = after.bpc
              /\ dpc' = after.dpc
    /\ UNCHANGED <<config, failed_file, disk, run, d_urls, total_batches, batch_num,
                   sleep_time, b_urls, successful_urls, failed_urls, history>>

\* Lines 197-216: the with block is left by an exception only when every
\* submitted call has run to its end (shutdown(wait=True)).
Unwound ==
    /\ bpc = "unwind"
    /\ \A t \in DOMAIN tasks : tasks[t].pc \in {"done", "consumed"}
    /\ bpc' = "idle"
    /\ dpc' = "crashed"
    /\ UNCHANGED <<config, files, run, d_urls, total_batches, batch_num, sleep_time,
                   b_urls, tasks, successful_urls, failed_urls, history>>

FailedLine(failed) == <<failed.url, "\t", failed.error>>

RECURSIVE FailedLines(_)
FailedLines(fs) ==
    IF fs = <<>> THEN <<>> ELSE <<FailedLine(Head(fs))>> \o FailedLines(Tail(fs))

\* Lines 218-225: the failure file is rewritten and download_batch returns.
BatchFinish ==
    /\ dpc = "in_batch"
    /\ bpc \in {"seq", "par"}
    /\ \A t \in DOMAIN tasks : tasks[t].pc = "consumed"
    /\ failed_file' = FailedLines(failed_urls)
    /\ bpc' = "idle"
    /\ dpc' = "after_batch"
    /\ written' = written \cup {batch_num}
    /\ UNCHANGED <<config, ledger, disk, run, d_urls, total_batches, batch_num,
                   sleep_time, b_urls, tasks, successful_urls, failed_urls, fetched,
                   handed, b_start_len, run_start_len, had_error, prev_run, pauses,
                   classified>>

\* ----------------------------------------------- batch_download_from_file
DriverFilter(urls, file) ==
    SelectSeq(urls, LAMBDA url : url \notin read_downloaded_urls(file))

TotalBatchesFloor(n, size) == n \div size

\* Line 246
TotalBatches(n, size) == (n + size - 1) \div size

Min(a, b) == IF a < b THEN a ELSE b

\* Lines 248-250: urls_to_download[start_idx:end_idx]
BatchUrls(urls, k, size) ==
    SubSeq(urls, k * size + 1, Min((k + 1) * size, Len(urls)))

\* Lines 230-246
RunStart ==
    /\ dpc = "start"
    /\ d_urls' = DriverFilter(read_urls(url_file), ledger)
    /\ total_batches' = TotalBatches(Len(d_urls'), batch_size)
    /\ batch_num' = 0
    /\ dpc' = "loop"
    /\ run_start_len' = Len(ledger)
    /\ UNCHANGED <<config, files, run, sleep_time, batch, fetched, handed,
                   b_start_len, had_error, prev_run, pauses, classified, written>>

SubmittedLateBound(todo, chunk) ==
    [i \in 1..Len(todo) |-> NewTask(todo[Len(todo)], chunk)]

\* Lines 179-182 and 198-200: one call of download_video per reference.
Submitted(todo, chunk) == [i \in 1..Len(todo) |-> NewTask(todo[i], chunk)]

\* Lines 247-253 and 157-175: the next chunk is cut and download_batch is
\* entered; it returns at once when the ledger holds the whole chunk.
BatchCall ==
    /\ dpc = "loop"
    /\ batch_num < total_batches
    /\ LET batch_urls == BatchUrls(d_urls, batch_num, batch_size)
           todo == BatchFilter(batch_urls, ledger)
       IN  /\ handed' = Append(handed, batch_urls)
           /\ b_start_len' = Len(ledger)
           /\ b_urls' = todo
           /\ tasks' = Submitted(todo, batch_num)
           /\ successful_urls' = <<>>
           /\ failed_urls' = <<>>
           /\ bpc' = IF todo = <<>> THEN "idle"
                     ELSE IF max_workers = 1 THEN "seq" ELSE "par"
           /\ dpc' = IF todo = <<>> THEN "after_batch" ELSE "in_batch"
    /\ UNCHANGED <<config, files, run, d_urls, total_batches, batch_num, sleep_time,
                   fetched, run_start_len, had_error, prev_run, pauses, classified,
                   written>>

\* random.randint(5, 60) gives every integer of SleepMin..SleepMax; the model
\* draws the two ends.
SleepTimes == {SleepMin, SleepMax}

\* Lines 258-260: random.randint(5, 60), then time.sleep
Sleep ==
    /\ dpc = "after_batch"
    /\ \E s \in SleepTimes : sleep_time' = s
    /\ pauses' = Append(pauses, batch_num)
    /\ dpc' = "sleeping"
    /\ UNCHANGED <<config, files, run, d_urls, total_batches, batch_num, batch,
                   fetched, handed, b_start_len, run_start_len, had_error, prev_run,
                   classified, written>>

Wake ==
    /\ dpc = "sleeping"
    /\ sleep_time' = 0
    /\ batch_num' = batch_num + 1
    /\ dpc' = "loop"
    /\ UNCHANGED <<config, files, run, d_urls, total_batches, batch, history>>

\* The loop of line 247 is over: the run ends.
RunEnd ==
    /\ dpc = "loop"
    /\ batch_num >= total_batches
    /\ dpc' = "done"
    /\ UNCHANGED <<config, files, run, d_urls, total_batches, batch_num, sleep_time,
                   batch, history>>

\* The program is started again on the same input file, with the ledger, the
\* failure file and the output directory as the last run left them.
Rerun ==
    /\ dpc \in {"done", "crashed"}
    /\ run = "first"
    /\ run' = "second"
    /\ dpc' = "start"
    /\ d_urls' = <<>>
    /\ total_batches' = 0
    /\ batch_num' = 0
    /\ sleep_time' = 0
    /\ bpc' = "idle"
    /\ b_urls' = <<>>
    /\ tasks' = <<>>
    /\ successful_urls' = <<>>
    /\ failed_urls' = <<>>
    /\ fetched' = <<>>
    /\ handed' = <<>>
    /\ pauses' = <<>>
    /\ had_error' = FALSE
    /\ classified' = <<>>
    /\ written' = {}
    /\ prev_run' = IF dpc = "crashed" THEN "crashed"
                   ELSE IF had_error THEN "failures" ELSE "clean"
    /\ b_start_len' = 0
    /\ run_start_len' = 0
    /\ UNCHANGED <<config, files>>

\* --------------------------------------------------------- specifications
RECURSIVE SeqsUpTo(_, _)
SeqsUpTo(S, n) ==
    IF n = 0 THEN {<<>>}
    ELSE LET shorter == SeqsUpTo(S, n - 1)
         IN  shorter \cup {Append(s, x) : s \in shorter, x \in S}

\* The lines an input file is made of.
Lines == {<<"A">>, <<ShortMarker, "A">>, <<" ", "B", " ">>}

\* The files the output directory may hold before the first run.
PreFiles == {<<<<"A">>, "mkv">>}

InitIdle ==
    /\ failed_file = <<>>
    /\ run = "first"
    /\ batch_num = 0
    /\ sleep_time = 0
    /\ successful_urls = <<>>
    /\ failed_urls = <<>>
    /\ fetched = <<>>
    /\ handed = <<>>
    /\ b_start_len = 0
    /\ run_start_len = 0
    /\ had_error = FALSE
    /\ prev_run = "none"
    /\ pauses = <<>>
    /\ classified = <<>>
    /\ written = {}

Init ==
    /\ url_file \in SeqsUpTo(Lines, MaxUrls)
    /\ batch_size \in 1..MaxBatch
    /\ max_workers \in 1..MaxWorkers
    /\ auth \in {"none", "cookies_file"}
    /\ retry_count = DefaultRetryCount
    /\ detail = FALSE
    /\ ledger = <<>>
    /\ disk \in SUBSET PreFiles
    /\ dpc = "start"
    /\ bpc = "idle"
    /\ b_urls = <<>>
    /\ tasks = <<>>
    /\ d_urls = <<>>
    /\ total_batches = 0
    /\ InitIdle

Next ==
    \/ RunStart
    \/ BatchCall
    \/ \E t \in 1..MaxUrls : StartFetch(t)
    \/ \E t \in 1..MaxUrls : DvAttempt(t)
    \/ \E t \in 1..MaxUrls : DvFallback(t)
    \/ \E t \in 1..MaxUrls : Classify(t)
    \/ \E t \in 1..MaxUrls : AppendLedger(t)
    \/ Unwound
    \/ BatchFinish
    \/ Sleep
    \/ Wake
    \/ RunEnd
    \/ Rerun

Spec == Init /\ [][Next]_vars

\* download_video called on its own, with every retry limit.
FetchRefs ==
    {<<"A">>, <<ShortMarker, "A", "?", "t=5">>, <<"x", LongMarker, "A", "&", "t=5">>,
     <<"B">>}

FetchInit ==
    /\ url_file = <<>>
    /\ batch_size = 1
    /\ max_workers = 1
    /\ auth \in AuthModes
    /\ retry_count \in 0..MaxRetry
    /\ detail = TRUE
    /\ ledger = <<>>
    /\ disk \in SUBSET ({<<"A">>} \X {"mp4", "mkv", "webm", "part"})
    /\ dpc = "direct"
    /\ bpc = "direct"
    /\ b_urls = <<>>
    /\ \E url \in FetchRefs : tasks = <<NewTask(url, 0)>>
    /\ d_urls = <<>>
    /\ total_batches = 0
    /\ InitIdle

FetchNext == StartFetch(1) \/ DvAttempt(1) \/ DvFallback(1)

FetchSpec == FetchInit /\ [][FetchNext]_vars

\* download_batch called on one chunk by itself, with chunks longer than the
\* pool is wide.
Refs == {<<"A">>, <<ShortMarker, "A">>, <<"B">>}

BatchInit ==
    /\ url_file = <<>>
    /\ batch_size = MaxChunk
    /\ max_workers \in 2..MaxWorkers
    /\ auth = "none"
    /\ retry_count = DefaultRetryCount
    /\ detail = FALSE
    /\ ledger \in {<<>>, << <<"A">> >>}
    /\ disk = {}
    /\ dpc = "loop"
    /\ bpc = "idle"
    /\ b_urls = <<>>
    /\ tasks = <<>>
    /\ d_urls \in SeqsUpTo(Refs, MaxChunk)
    /\ total_batches = 1
    /\ InitIdle

BatchNext ==
    \/ BatchCall
    \/ \E t \in 1..MaxChunk : StartFetch(t)
    \/ \E t \in 1..MaxChunk : DvAttempt(t)
    \/ \E t \in 1..MaxChunk : DvFallback(t)
    \/ \E t \in 1..MaxChunk : Classify(t)
    \/ \E t \in 1..MaxChunk : AppendLedger(t)
    \/ Unwound
    \/ BatchFinish

BatchSpec == BatchInit /\ [][BatchNext]_vars

\* ------------------------------------------------------------ properties
\* The lines the ledger file held when it was n lines long.
LedgerLines(n) == Range(SubSeq(ledger, 1, n))

FetchedUrls == {fetched[i].url : i \in 1..Len(fetched)}

Count(seq, x) == Cardinality({i \in 1..Len(seq) : seq[i] = x})

RECURSIVE Flatten(_)
Flatten(chunks) ==
    IF chunks = <<>> THEN <<>> ELSE Head(chunks) \o Flatten(Tail(chunks))

IsPrefix(s, t) == Len(s) <= Len(t) /\ SubSeq(t, 1, Len(s)) = s

C2_Classification ==
    /\ (dpc \in {"after_batch", "sleeping"} /\ tasks # <<>>) =>
          /\ Len(tasks) = Len(b_urls)
          /\ \A t \in DOMAIN tasks :
                /\ tasks[t].pc = "consumed"
                /\ tasks[t].url = b_urls[t]
                /\ tasks[t].result.status \in {"success", "already_exists", "error"}
          /\ \A u \in Range(b_urls) :
                /\ Count(successful_urls, u) =
                      Cardinality({t \in DOMAIN tasks : /\ tasks[t].url = u
                                                        /\ tasks[t].result.status
                                                             \in {"success", "already_exists"}})
                /\ Count([i \in 1..Len(failed_urls) |-> failed_urls[i].url], u) =
                      Cardinality({t \in DOMAIN tasks : /\ tasks[t].url = u
                                                        /\ tasks[t].result.status = "error"})
          /\ SubSeq(ledger, b_start_len + 1, Len(ledger)) = successful_urls
          /\ Len(successful_urls) + Len(failed_urls) = Len(b_urls)
    /\ dpc = "done" => Range(d_urls) \subseteq FetchedUrls

C2_Witness ==
    /\ max_workers = 2
    /\ dpc = "after_batch"
    /\ batch_num = 1
    /\ had_error
    /\ failed_urls = <<>>
    /\ Len(successful_urls) = 1
    /\ Len(failed_file) = 0

\* C3: no reference that the ledger file held when the chunk started is passed
\* to download_video during the chunk.
C3_NoLedgeredFetch ==
    \A t \in DOMAIN tasks :
        tasks[t].pc # "queued" => tasks[t].url \notin LedgerLines(b_start_len)

C3_Witness ==
    /\ dpc = "after_batch"
    /\ batch_num = 1
    /\ Len(handed) = 2
    /\ handed[2][1] \in LedgerLines(b_start_len)
    /\ fetched = <<[batch |-> 0, url |-> handed[2][1]]>>
    /\ tasks = <<>>

\* C4: with more than one worker, never more than max_workers calls of
\* download_video are in flight.
C4_PoolBound ==
    max_workers > 1 => Cardinality(Running) <= max_workers

C4_Witness ==
    /\ max_workers > 1
    /\ Cardinality(Running) = max_workers
    /\ \E t \in DOMAIN tasks : tasks[t].pc = "queued"

\* The part of C5 about the order of chunks: the calls in flight all belong to
\* the chunk in hand, and when a call of a chunk is made every call of the
\* chunks before it has returned and been classified.
C5_Sequential ==
    /\ \A t \in Running : tasks[t].batch = batch_num /\ dpc = "in_batch"
    /\ \A i \in 1..Len(fetched) :
          Cardinality({j \in 1..Len(fetched) : fetched[j].batch < fetched[i].batch})
              = Cardinality({j \in 1..Len(classified) : classified[j] < fetched[i].batch})

\* C5 as stated: chunks are processed one after another, and no fetch of a
\* chunk starts before the failure file of every chunk before it was written.
C5_Original ==
    /\ C5_Sequential
    /\ \A i \in 1..Len(fetched) : \A k \in 0..(fetched[i].batch - 1) : k \in written

\* C6: the chunks handed to download_batch are, in order, the remaining list
\* (the input references the ledger did not hold when the run started) cut
\* into pieces of batch_size, the last one of 1..batch_size references.
C6_Chunking ==
    dpc \notin {"start", "direct"} =>
        LET remaining == SelectSeq(read_urls(url_file),
                                   LAMBDA u : u \notin LedgerLines(run_start_len))
        IN  /\ IsPrefix(Flatten(handed), remaining)
            /\ \A k \in 1..Len(handed) :
                  /\ Len(handed[k]) \in 1..batch_size
                  /\ k < Len(handed) => Len(handed[k]) = batch_size
            /\ dpc = "done" => Flatten(handed) = remaining

C6_Witness ==
    /\ dpc = "done"
    /\ batch_size = 2
    /\ Len(handed) = 2
    /\ Len(handed[1]) = 2
    /\ Len(handed[2]) = 1

\* ---- download_video's calls, one at a time
Generic == [raise |-> FALSE, rc0 |-> FALSE, bot |-> FALSE, unavail |-> FALSE]

Kinds(log) == [i \in 1..Len(log) |-> <<log[i].k, log[i].a, log[i].base>>]

AllGeneric(log) == \A i \in 1..Len(log) : log[i].k # "sleep" => log[i].o = {Generic}

ExhaustedTrace ==
    << <<"primary", 0, 0>>, <<"sleep", 0, 1>>, <<"primary", 1, 0>>,
       <<"fallback", 1, 0>>, <<"sleep", 1, 2>>, <<"primary", 2, 0>> >>

\* C7: with retry limit 3, a fetch whose every invocation exits non-zero with a
\* generic error makes three primary invocations, one fallback invocation right
\* after the primary invocation of index 1, and returns "Failed after 3 attempts".
C7_Exhaustion ==
    \A t \in DOMAIN tasks :
        (retry_count = 3 /\ AllGeneric(tasks[t].log)) =>
            /\ IsPrefix(Kinds(tasks[t].log), ExhaustedTrace)
            /\ tasks[t].pc = "done" /\ ~tasks[t].had_file =>
                  /\ Kinds(tasks[t].log) = ExhaustedTrace
                  /\ tasks[t].result = Err(ErrFailedAfter)
            /\ Kinds(tasks[t].log) = ExhaustedTrace => tasks[t].pc = "done"

C7_Witness ==
    /\ retry_count = 3
    /\ tasks[1].pc = "done"
    /\ AllGeneric(tasks[1].log)
    /\ Len(tasks[1].log) = 6
    /\ tasks[1].result = Err(ErrFailedAfter)

\* A primary invocation that exited non-zero with the given text in its output.
FailedWith(ev, bot, unavail) ==
    /\ ev.k = "primary"
    /\ \E out \in ev.o : ~out.raise /\ ~out.rc0 /\ out.bot = bot /\ out.unavail = unavail

MarkedUnavailable(ev) == FailedWith(ev, TRUE, TRUE) \/ FailedWith(ev, FALSE, TRUE)

\* C8 as stated: a fetch whose primary invocation fails with the unavailable
\* marker in its output returns the Unavailable error right after it, with no
\* retry, fallback or sleep.
C8_Original ==
    \A t \in DOMAIN tasks : \A i \in 1..Len(tasks[t].log) :
        MarkedUnavailable(tasks[t].log[i]) =>
            /\ i = Len(tasks[t].log)
            /\ tasks[t].pc = "done"
            /\ tasks[t].result = Err(ErrUnavailable)

\* C8, amended: such a fetch returns an error right after that invocation, with
\* no retry, fallback or sleep: the Unavailable error, or the
\* authentication-required error when the output also holds the bot check and
\* no authentication material was supplied.
C8_Permanent ==
    \A t \in DOMAIN tasks : \A i \in 1..Len(tasks[t].log) :
        MarkedUnavailable(tasks[t].log[i]) =>
            /\ i = Len(tasks[t].log)
            /\ tasks[t].pc = "done"
            /\ tasks[t].result =
                  IF FailedWith(tasks[t].log[i], TRUE, TRUE) /\ auth = "none"
                  THEN Err(ErrAuth)
                  ELSE Err(ErrUnavailable)

C8_Witness ==
    /\ retry_count = MaxRetry
    /\ Len(tasks[1].log) = 1
    /\ FailedWith(tasks[1].log[1], FALSE, TRUE)
    /\ tasks[1].pc = "done"
    /\ tasks[1].result = Err(ErrUnavailable)

\* What follows a failed primary invocation that is not a permanent error.
FollowsRetryPolicy(tk, i) ==
    LET a == tk.log[i].a
    IN  IF a = 1
        THEN IF i = Len(tk.log) THEN tk.pc = "fallback"
             ELSE tk.log[i + 1].k = "fallback" /\ tk.log[i + 1].a = 1
        ELSE IF a < retry_count - 1
        THEN /\ i < Len(tk.log)
             /\ tk.log[i + 1].k = "sleep"
             /\ tk.log[i + 1].base = Pow2(a)
        ELSE /\ i = Len(tk.log)
             /\ tk.pc = "done"
             /\ tk.result = Err(ErrFailedAfter)

C10_ExistenceShortCircuit ==
    \A t \in DOMAIN tasks :
        tasks[t].had_file =>
            /\ tasks[t].pc \in {"done", "appending", "consumed"}
            /\ tasks[t].log = <<>>
            /\ tasks[t].result = Ok("already_exists")
            /\ tasks[t].pc = "consumed" =>
                  /\ tasks[t].url \in Range(successful_urls)
                  /\ dpc # "crashed" /\ bpc # "unwind" =>
                        tasks[t].url \in Range(SubSeq(ledger, b_start_len + 1, Len(ledger)))

C10_Witness ==
    /\ \E t \in DOMAIN tasks :
          /\ tasks[t].had_file
          /\ tasks[t].pc = "consumed"
          /\ tasks[t].url = <<ShortMarker, "A">>
          /\ tasks[t].url \in Range(ledger)
    /\ fetched = <<[batch |-> 0, url |-> <<ShortMarker, "A">>]>>
    /\ <<<<"A">>, "mkv">> \in disk

\* ---- the failure file
ErrorTasks == {t \in DOMAIN tasks : tasks[t].result.status = "error"}

\* C11: when download_batch has returned from a chunk, the failure file holds
\* the failures of that chunk and nothing else: one line for each reference of
\* the chunk whose outcome was an error, none from an earlier chunk; also
\* when the ledger already held every reference of the chunk.
C11_Original ==
    dpc = "after_batch" =>
        /\ Len(failed_file) = Cardinality(ErrorTasks)
        /\ \A i \in 1..Len(failed_file) :
              \E t \in ErrorTasks :
                  failed_file[i] = <<tasks[t].url, "\t", tasks[t].result.error>>
        /\ \A t \in ErrorTasks :
              \E i \in 1..Len(failed_file) : failed_file[i][1] = tasks[t].url

\* ---- the ledger write that fails
\* The run is over, or is waiting for the pool before it is.
Crashing == dpc = "crashed" \/ bpc = "unwind"

\* A step in which the append of a successful reference to the ledger raised.
FailedAppend ==
    \E t \in DOMAIN tasks :
        /\ tasks[t].pc = "appending"
        /\ t \in DOMAIN tasks'
        /\ tasks'[t].pc = "consumed"
        /\ ledger' = ledger

\* C12: an append to the ledger that raises ends the run: from then on no
\* chunk is handed to download_batch, no outcome is classified and no file is
\* written; and nothing else that happens to a reference ends the run.
C12_LedgerFailureFatal ==
    [][/\ FailedAppend => Crashing'
       /\ (Crashing /\ run' = run) =>
              /\ Crashing'
              /\ handed' = handed
              /\ classified' = classified
              /\ ledger' = ledger
              /\ failed_file' = failed_file
       /\ (~Crashing /\ Crashing') => FailedAppend]_vars

C12_Witness ==
    /\ dpc = "crashed"
    /\ max_workers = 2
    /\ had_error
    /\ batch_num + 1 < total_batches
    /\ Len(handed) = batch_num + 1

\* ---- the pauses of the driver
\* C13: the driver pauses after every chunk but the last of the run, once, for
\* at least 5 and less than 60 seconds; it does not pause after the last chunk.
C13_Original ==
    /\ dpc = "sleeping" =>
          /\ batch_num < total_batches - 1
          /\ sleep_time >= 5 /\ sleep_time < 60
    /\ dpc = "done" => pauses = [i \in 1..(total_batches - 1) |-> i - 1]

\* ---- the ledger file over time
\* The lines the chunk in hand has appended to the ledger file.
ChunkLines == SubSeq(ledger, b_start_len + 1, Len(ledger))

\* A step in which the append of task t's reference returned.
AppendReturned(t) ==
    /\ tasks[t].pc = "appending"
    /\ t \in DOMAIN tasks'
    /\ tasks'[t].pc = "consumed"
    /\ ~Crashing'

\* C14: once the append of a reference has returned, the reference is among
\* what read_downloaded_urls reads from the ledger file, and stays so through
\* every later step, the end of the run by an exception and the start of the
\* next run included; and the append of a success is made as its outcome is
\* dealt with, before the next outcome is taken up: the lines the chunk has
\* appended are always its success list, less the reference being appended.
C14_LedgerDurable ==
    /\ [](dpc \in {"in_batch", "after_batch", "crashed"} =>
            \/ ChunkLines = successful_urls
            \/ /\ Appending # {} \/ Crashing
               /\ Len(successful_urls) = Len(ChunkLines) + 1
               /\ IsPrefix(ChunkLines, successful_urls))
    /\ [][/\ IsPrefix(ledger, ledger')
           /\ read_downloaded_urls(ledger) \subseteq read_downloaded_urls(ledger')
           /\ \A t \in DOMAIN tasks :
                 AppendReturned(t) =>
                     /\ tasks[t].url \in read_downloaded_urls(ledger')
                     /\ ledger' = Append(ledger, tasks[t].url)]_vars

C14_Witness ==
    /\ run = "second"
    /\ prev_run = "crashed"
    /\ dpc = "loop"
    /\ Len(ledger) = 2
    /\ ledger[1] # ledger[2]
    /\ Range(ledger) \subseteq Range(read_urls(url_file))
    /\ d_urls # <<>>
    /\ Range(ledger) \cap Range(d_urls) = {}

\* ---- the writers of the ledger file
\* C15: at most one append to the ledger file is in progress at any moment,
\* whatever the number of workers, and every line of the ledger file is one
\* whole reference of the input list.
C15_OneWriter ==
    /\ Cardinality(Appending) <= 1
    /\ \A i \in 1..Len(ledger) : ledger[i] \in Range(read_urls(url_file))

C15_Witness ==
    /\ max_workers = 2
    /\ Cardinality(Appending) = 1
    /\ \E t \in DOMAIN tasks :
          /\ tasks[t].pc = "done"
          /\ tasks[t].result.status = "success"
    /\ Len(successful_urls) = 1

\* ---- the targets of the calls in flight
NoDuplicates(seq) == \A i, j \in 1..Len(seq) : seq[i] = seq[j] => i = j

Ids(seq) == [i \in 1..Len(seq) |-> extract_video_id_from_url(seq[i])]

\* Two calls of download_video in flight write to the same output file.
SameTarget ==
    \E s, t \in Running :
        /\ s # t
        /\ extract_video_id_from_url(tasks[s].url) = extract_video_id_from_url(tasks[t].url)

\* C16 as stated: when no reference string occurs twice in the input list, no
\* two calls in flight at the same time have the same video id.
C16_Original ==
    NoDuplicates(read_urls(url_file)) => ~SameTarget

\* C16, amended: when no two references of the input list have the same video
\* id, no two calls in flight at the same time have the same video id.
C16_DistinctIds ==
    NoDuplicates(Ids(read_urls(url_file))) => ~SameTarget

C16_Witness ==
    /\ NoDuplicates(Ids(read_urls(url_file)))
    /\ Cardinality(Running) = 2
    /\ \E t \in Running : tasks[t].url = <<ShortMarker, "A">>

\* ---- the alternate-format invocation
Fallbacks(log) == {i \in 1..Len(log) : log[i].k = "fallback"}

\* The invocation exited with return code 0.
ExitedZero(ev) == \E out \in ev.o : ~out.raise /\ out.rc0

\* A primary invocation that exited non-zero with no permanent error: no
\* unavailable marker, and no bot check unless authentication was supplied.
NonPermanentFailure(ev) ==
    /\ ev.k = "primary"
    /\ \E out \in ev.o :
          /\ ~out.raise /\ ~out.rc0 /\ ~out.unavail
          /\ ~(out.bot /\ auth = "none")

\* C17: a fetch makes the alternate-format invocation at most once, and only
\* right after the primary invocation of index 1 failed with no permanent
\* error; when it exits with 0, download_video returns success at once, with
\* no sleep and no further invocation; with retry limit 1 it is never made.
C17_Fallback ==
    \A t \in DOMAIN tasks :
        LET log == tasks[t].log
        IN  /\ Cardinality(Fallbacks(log)) <= 1
            /\ \A i \in Fallbacks(log) :
                  /\ i > 1
                  /\ log[i].a = 1
                  /\ log[i - 1].a = 1
                  /\ NonPermanentFailure(log[i - 1])
                  /\ ExitedZero(log[i]) =>
                        /\ i = Len(log)
                        /\ tasks[t].pc = "done"
                        /\ tasks[t].result = Ok("success")
            /\ retry_count = 1 => Fallbacks(log) = {} /\ tasks[t].pc # "fallback"

C17_Witness ==
    /\ retry_count = 3
    /\ Len(tasks[1].log) = 4
    /\ Fallbacks(tasks[1].log) = {4}
    /\ ExitedZero(tasks[1].log[4])
    /\ tasks[1].pc = "done"
    /\ tasks[1].result = Ok("success")

\* ---- the invocation that raises
Raised(ev) == ev.k # "sleep" /\ \E out \in ev.o : out.raise

AllRaised(log) == \A i \in 1..Len(log) : log[i].k # "sleep" => Raised(log[i])

\* primary(0), sleep, primary(1), sleep, ..., primary(n - 1)
LaunchTrace(n) ==
    [i \in 1..(2 * n - 1) |->
        IF i % 2 = 1 THEN <<"primary", (i - 1) \div 2>> ELSE <<"sleep", (i - 2) \div 2>>]

Steps(log) == [i \in 1..Len(log) |-> <<log[i].k, log[i].a>>]

\* C18: a fetch whose every invocation raises (the process cannot be started,
\* or communicate raises) launches the tool retry_count times, sleeps between
\* two consecutive launches and not after the last, and then returns an error
\* outcome that carries the exception's text; download_video returns, it does
\* not raise.
C18_InvocationFailure ==
    \A t \in DOMAIN tasks :
        (retry_count >= 1 /\ AllRaised(tasks[t].log)) =>
            /\ IsPrefix(Steps(tasks[t].log), LaunchTrace(retry_count))
            /\ tasks[t].pc = "done" /\ ~tasks[t].had_file =>
                  /\ Steps(tasks[t].log) = LaunchTrace(retry_count)
                  /\ tasks[t].result = Err(ErrException)
            /\ Steps(tasks[t].log) = LaunchTrace(retry_count) => tasks[t].pc = "done"

C18_Witness ==
    /\ retry_count = 3
    /\ AllRaised(tasks[1].log)
    /\ Len(tasks[1].log) = 5
    /\ tasks[1].pc = "done"
    /\ tasks[1].result = Err(ErrException)

\* ---- the backoff sleeps
\* The invocation ended attempt a in failure with no permanent error: it
\* raised, or it exited non-zero and is the attempt's last (the fallback, or
\* a primary invocation that is not followed by the fallback).
AttemptFailed(ev) ==
    \/ Raised(ev)
    \/ NonPermanentFailure(ev) /\ ev.a # 1
    \/ ev.k = "fallback" /\ ~ExitedZero(ev)

Sleeps(log) == SelectSeq(log, LAMBDA ev : ev.k = "sleep")

\* C19: after an attempt of index k that failed with no permanent error,
\* download_video sleeps exactly when k < retry_count - 1, and returns an error
\* otherwise; a sleep comes only there; its delay is a base of 2^k seconds (1
\* for the first sleep of a fetch, twice the one before for each next) plus a
\* jitter of at least 0 and less than 1 second; and no sleep comes right before
\* download_video returns.
C19_Backoff ==
    \A t \in DOMAIN tasks :
        LET log == tasks[t].log
            sl == Sleeps(log)
        IN  /\ \A i \in 1..Len(log) :
                  /\ AttemptFailed(log[i]) =>
                        IF log[i].a < retry_count - 1
                        THEN /\ i < Len(log)
                             /\ log[i + 1].k = "sleep"
                             /\ log[i + 1].a = log[i].a
                        ELSE /\ i = Len(log)
                             /\ tasks[t].pc = "done"
                             /\ tasks[t].result.status = "error"
                  /\ log[i].k = "sleep" =>
                        /\ i > 1
                        /\ AttemptFailed(log[i - 1])
                        /\ log[i - 1].a = log[i].a
                        /\ log[i].a < retry_count - 1
                        /\ log[i].jit >= 0 /\ log[i].jit < 1000
                        /\ ~(i = Len(log) /\ tasks[t].pc = "done")
            /\ \A j \in 1..Len(sl) :
                  /\ sl[j].a = j - 1
                  /\ sl[j].base = IF j = 1 THEN 1 ELSE 2 * sl[j - 1].base

C19_Witness ==
    /\ retry_count = 4
    /\ tasks[1].pc = "done"
    /\ tasks[1].result = Err(ErrFailedAfter)
    /\ Len(Sleeps(tasks[1].log)) = 3
    /\ Sleeps(tasks[1].log)[3].base = 4
    /\ Sleeps(tasks[1].log)[3].jit = 999
    /\ Raised(tasks[1].log[1])

\* ---- what download_video returns
\* C20: for every reference, every retry limit from 0 up and every run of
\* invocation results, download_video ends after a bounded number of
\* invocations and sleeps, and what it returns has the status success,
\* already_exists or error.
C20_Original ==
    \A t \in DOMAIN tasks :
        /\ Len(tasks[t].log) <= 2 * retry_count
        /\ tasks[t].pc = "done" =>
              tasks[t].result.status \in {"success", "already_exists", "error"}

====
